---------------------------- MODULE Spec2Model ----------------------------
(***************************************************************************)
(* Model of the selection-bias meme pipeline:                              *)
(*   src/step5_create_masked.py        create_masked_stipple               *)
(*   src/create_meme.py                create_statistics_meme              *)
(*   src/step4_create_block_letter.py  _find_font_path,                    *)
(*                                     create_block_letter_s               *)
(* Each function is a small state machine whose program counter follows    *)
(* the statements of the source; numpy arrays live in a heap so that       *)
(* aliasing and in-place writes are visible.                               *)
(***************************************************************************)
EXTENDS Integers, Sequences, FiniteSets

VARIABLES
    heap,            \* array objects: id -> [shape, data], for the ids in use
    heap0,           \* the heap as it was when the call started (history)
    stipple_img,     \* argument of create_masked_stipple: an array id
    mask_img,        \* argument of create_masked_stipple: an array id
    threshold,       \* argument of create_masked_stipple
    masked_stipple,  \* local/result of create_masked_stipple: an array id, 0 unset
    mask_area,       \* local of create_masked_stipple: a boolean array
    m_pc,            \* position in create_masked_stipple
    m_err,           \* the exception create_masked_stipple raised, or NoError
    panel_shape,     \* create_statistics_meme: argument name -> shape of the array
    g_i,             \* create_statistics_meme: index of the loop in progress
    g_pc,            \* position in create_statistics_meme
    g_err,           \* the exception create_statistics_meme raised, or NoPanelError
    fig_open,        \* whether a matplotlib figure exists
    axes,            \* labels of the subplots added to the figure, in order
    files,           \* output paths written so far
    system,          \* environment: platform.system()
    exists,          \* environment: the font files os.path.exists finds
    loadable,        \* environment: the font files FreeType can read
    height,          \* argument of create_block_letter_s
    width,           \* argument of create_block_letter_s
    letter,          \* argument of create_block_letter_s: a string, or NULL for None
    img,             \* the PIL image: [size, data], data indexed <<x, y>>
    font_size,       \* local of create_block_letter_s
    font_path,       \* local of create_block_letter_s: a path or NULL
    font,            \* local of create_block_letter_s: [kind, path, size]
    layout,          \* text_width, text_height (tenths), bbox_y_offset, x, y
                     \* (twentieths) and the branch that produced the sizes
    letter_array,    \* the raster returned: [shape, data, divisor]
    l_pc,            \* position in create_block_letter_s
    l_err            \* the exception create_block_letter_s ended in, or NoLetterError

l_vars == <<system, exists, loadable, height, width, letter, img, font_size,
            font_path, font, layout, letter_array, l_pc, l_err>>

g_vars == <<panel_shape, g_i, g_pc, g_err, fig_open, axes, files>>

m_vars == <<heap, heap0, stipple_img, mask_img, threshold, masked_stipple,
            mask_area, m_pc, m_err>>

NULL == "None"
NoError == [type |-> NULL, template |-> "", args |-> <<>>]
Range(f) == {f[i] : i \in DOMAIN f}

(***************************************************************************)
(* Bounds of the model.                                                    *)
(***************************************************************************)
\* Samples are k/Scale for k in 0..Scale, so 0 is 0.0 and Scale is 1.0.
Scale == 2
\* A raster has at most MaxPixels samples.
MaxPixels == 2
\* create_block_letter_s is called with height and width in -1 .. MaxDim.
MaxDim == 3
\* At most MaxExisting of the candidate font files exist.
MaxExisting == 2

Levels == 0 .. Scale
\* src/step5_create_masked.py:68  the value 1.0 (white) on the sample scale
White == Scale

Shapes == {s \in (1 .. MaxPixels) \X (1 .. MaxPixels) : s[1] * s[2] <= MaxPixels}
Pixels(shape) == (1 .. shape[1]) \X (1 .. shape[2])
Arrays == UNION {[shape : {s}, data : [Pixels(s) -> Levels]] : s \in Shapes}
\* thresholds on the sample scale, with one value below 0.0 and one above 1.0
Thresholds == -1 .. Scale + 1

(***************************************************************************)
(* create_masked_stipple                                                   *)
(***************************************************************************)
\* lines 52-56: the ValueError and its f-string, as the literal text and the
\* interpolated values.
\* (faulty variant: the message leaves out the mask's shape)
OnlyStippleShape(s, m) ==
    [type |-> "ValueError",
     template |-> "Images must have the same shape. stipple_img shape: {}",
     args |-> <<s>>]
ShapeMismatch(s, m) ==
    [type |-> "ValueError",
     template |-> "Images must have the same shape. stipple_img shape: {}, mask_img shape: {}",
     args |-> <<s, m>>]

\* line 59, ndarray.copy(): a new object with the same shape and samples;
\* gives the heap after the copy and the reference to the new object.
\* (faulty variant: no copy, the result aliases the argument)
NoCopy(h, id) == [heap |-> h, ref |-> id]
Copy(h, id) ==
    LET new == CHOOSE n \in 1 .. Cardinality(DOMAIN h) + 1 : n \notin DOMAIN h
    IN  [heap |-> [n \in DOMAIN h \cup {new} |-> IF n = new THEN h[id] ELSE h[n]],
         ref |-> new]

\* line 65: mask_img < threshold, elementwise.
\* (faulty variants: <= erases at equality, > erases the light pixels)
LessEqual(a, t) == [p \in DOMAIN a.data |-> a.data[p] <= t]
Greater(a, t) == [p \in DOMAIN a.data |-> a.data[p] > t]
Less(a, t) == [p \in DOMAIN a.data |-> a.data[p] < t]

\* line 68, a[area] = v: the in-place write through a boolean index
AssignWhere(a, area, v) ==
    [a EXCEPT !.data = [p \in DOMAIN a.data |-> IF area[p] THEN v ELSE a.data[p]]]

MaskInit ==
    /\ stipple_img = 1
    /\ mask_img \in {1, 2}
    /\ \E s \in Arrays, m \in Arrays :
          heap = IF mask_img = 2 THEN <<s, m>> ELSE <<s>>
    /\ heap0 = heap
    /\ threshold \in Thresholds
    /\ masked_stipple = 0
    /\ mask_area = NULL
    /\ m_pc = "validate"
    /\ m_err = NoError

\* line 51: stipple_img.shape != mask_img.shape
ShapesDiffer(s, m) == s # m

MaskValidate ==
    /\ m_pc = "validate"
    /\ IF ShapesDiffer(heap[stipple_img].shape, heap[mask_img].shape)
         THEN /\ m_err' = ShapeMismatch(heap[stipple_img].shape,
                                         heap[mask_img].shape)
              /\ m_pc' = "raised"
         ELSE /\ m_pc' = "copy"
              /\ UNCHANGED m_err
    /\ UNCHANGED <<heap, heap0, stipple_img, mask_img, threshold,
                   masked_stipple, mask_area>>
    /\ UNCHANGED <<g_vars, l_vars>>

\* line 59
MaskCopy ==
    /\ m_pc = "copy"
    /\ LET c == Copy(heap, stipple_img) IN
         /\ masked_stipple' = c.ref
         /\ heap' = c.heap
    /\ m_pc' = "compare"
    /\ UNCHANGED <<heap0, stipple_img, mask_img, threshold, mask_area, m_err>>
    /\ UNCHANGED <<g_vars, l_vars>>

\* line 65
MaskCompare ==
    /\ m_pc = "compare"
    /\ mask_area' = Less(heap[mask_img], threshold)
    /\ m_pc' = "assign"
    /\ UNCHANGED <<heap, heap0, stipple_img, mask_img, threshold,
                   masked_stipple, m_err>>
    /\ UNCHANGED <<g_vars, l_vars>>

\* line 68
MaskAssign ==
    /\ m_pc = "assign"
    /\ heap' = [heap EXCEPT ![masked_stipple] =
                   AssignWhere(heap[masked_stipple], mask_area, White)]
    /\ m_pc' = "return"
    /\ UNCHANGED <<heap0, stipple_img, mask_img, threshold, masked_stipple,
                   mask_area, m_err>>
    /\ UNCHANGED <<g_vars, l_vars>>

\* line 70
MaskReturn ==
    /\ m_pc = "return"
    /\ m_pc' = "returned"
    /\ UNCHANGED <<heap, heap0, stipple_img, mask_img, threshold,
                   masked_stipple, mask_area, m_err>>
    /\ UNCHANGED <<g_vars, l_vars>>

\* the caller, after line 70 handed it the raster: one write into it
CallerWritesResult ==
    /\ m_pc = "returned"
    /\ \E p \in DOMAIN heap[masked_stipple].data, v \in Levels :
          /\ heap[masked_stipple].data[p] # v
          /\ heap' = [heap EXCEPT ![masked_stipple].data[p] = v]
    /\ m_pc' = "written"
    /\ UNCHANGED <<heap0, stipple_img, mask_img, threshold, masked_stipple,
                   mask_area, m_err>>
    /\ UNCHANGED <<g_vars, l_vars>>

MaskNext ==
    \/ MaskValidate
    \/ MaskCopy
    \/ MaskCompare
    \/ MaskAssign
    \/ MaskReturn
    \/ CallerWritesResult

(***************************************************************************)
(* create_statistics_meme                                                  *)
(***************************************************************************)
NoPanelError == [type |-> NULL, template |-> "", name |-> "",
                 shape |-> <<>>, expected |-> <<>>]

\* lines 58-63: the keys of the dict `images`, in insertion order, which is
\* the order items() yields them in.
\* (faulty variant: the panels checked last to first)
ReversedImages == <<"masked_stipple", "block_letter", "stipple", "original">>
Images == <<"original", "stipple", "block_letter", "masked_stipple">>

\* line 73
Labels == <<"Reality", "Your Model", "Selection Bias", "Estimate">>

\* lines 67-70: the f-string of the ValueError
PanelMismatch(name, shape, expected) ==
    [type |-> "ValueError",
     template |-> "All images must have the same shape. {}_img shape: {}, expected: {}",
     name |-> name, shape |-> shape, expected |-> expected]

\* the path the caller passes as output_path
OutputPath == "meme.png"

MemeIdle ==
    /\ panel_shape = <<>>
    /\ g_i = 0
    /\ g_pc = "idle"
    /\ g_err = NoPanelError
    /\ fig_open = FALSE
    /\ axes = <<>>
    /\ files = {}

MemeInit ==
    /\ panel_shape \in [Range(Images) -> Shapes]
    /\ g_i = 1
    /\ g_pc = "validate"
    /\ g_err = NoPanelError
    /\ fig_open = FALSE
    /\ axes = <<>>
    /\ files = {}

\* lines 57, 65-70: one iteration of the validation loop
MemeValidate ==
    /\ g_pc = "validate"
    /\ LET name == Images[g_i]
           img_shape == panel_shape["original"]
       IN  IF panel_shape[name] # img_shape
             THEN /\ g_err' = PanelMismatch(name, panel_shape[name], img_shape)
                  /\ g_pc' = "raised"
                  /\ UNCHANGED g_i
             ELSE /\ IF g_i < Len(Images)
                       THEN g_i' = g_i + 1 /\ g_pc' = "validate"
                       ELSE g_i' = 0 /\ g_pc' = "figure"
                  /\ UNCHANGED g_err
    /\ UNCHANGED <<panel_shape, fig_open, axes, files>>
    /\ UNCHANGED <<m_vars, l_vars>>

\* lines 78-83
MemeFigure ==
    /\ g_pc = "figure"
    /\ fig_open' = TRUE
    /\ axes' = <<>>
    /\ g_i' = 0
    /\ g_pc' = "subplot"
    /\ UNCHANGED <<panel_shape, g_err, files>>
    /\ UNCHANGED <<m_vars, l_vars>>

\* lines 84-99: one iteration of `for i in range(4)`
MemeSubplot ==
    /\ g_pc = "subplot"
    /\ axes' = Append(axes, Labels[g_i + 1])
    /\ IF g_i + 1 < 4
         THEN g_i' = g_i + 1 /\ g_pc' = "subplot"
         ELSE g_i' = g_i /\ g_pc' = "save"
    /\ UNCHANGED <<panel_shape, g_err, fig_open, files>>
    /\ UNCHANGED <<m_vars, l_vars>>

\* lines 102-103
MemeSave ==
    /\ g_pc = "save"
    /\ files' = files \cup {OutputPath}
    /\ g_pc' = "close"
    /\ UNCHANGED <<panel_shape, g_i, g_err, fig_open, axes>>
    /\ UNCHANGED <<m_vars, l_vars>>

\* line 104
MemeClose ==
    /\ g_pc = "close"
    /\ fig_open' = FALSE
    /\ g_pc' = "returned"
    /\ UNCHANGED <<panel_shape, g_i, g_err, axes, files>>
    /\ UNCHANGED <<m_vars, l_vars>>

MemeNext ==
    \/ MemeValidate
    \/ MemeFigure
    \/ MemeSubplot
    \/ MemeSave
    \/ MemeClose

MaskIdle ==
    /\ heap = <<>>
    /\ heap0 = <<>>
    /\ stipple_img = 0
    /\ mask_img = 0
    /\ threshold = 0
    /\ masked_stipple = 0
    /\ mask_area = NULL
    /\ m_pc = "idle"
    /\ m_err = NoError

(***************************************************************************)
(* _find_font_path and create_block_letter_s                               *)
(***************************************************************************)
Systems == {"Windows", "Darwin", "Linux"}

\* lines 27-51
FontPaths(sys) ==
    CASE sys = "Windows" ->
           <<"C:/Windows/Fonts/arialbd.ttf", "C:/Windows/Fonts/arial.ttf",
             "C:/Windows/Fonts/calibrib.ttf", "C:/Windows/Fonts/calibri.ttf",
             "C:/Windows/Fonts/impact.ttf", "C:/Windows/Fonts/timesbd.ttf">>
      [] sys = "Darwin" ->
           <<"/Library/Fonts/Arial Bold.ttf", "/Library/Fonts/Arial.ttf",
             "/Library/Fonts/Helvetica Bold.ttf", "/Library/Fonts/Helvetica.ttf",
             "/System/Library/Fonts/Helvetica.ttc",
             "/System/Library/Fonts/Supplemental/Arial Bold.ttf">>
      [] OTHER ->
           <<"/usr/share/fonts/truetype/dejavu/DejaVuSans-Bold.ttf",
             "/usr/share/fonts/truetype/liberation/LiberationSans-Bold.ttf",
             "/usr/share/fonts/truetype/liberation/LiberationSans-Regular.ttf",
             "/usr/share/fonts/truetype/noto/NotoSans-Bold.ttf">>

\* lines 53-58: the first candidate that exists, or None
FindFontPath(sys, ex) ==
    LET paths == FontPaths(sys)
        found == {i \in DOMAIN paths : paths[i] \in ex}
    IN  IF found = {} THEN NULL
        ELSE paths[CHOOSE i \in found : \A j \in found : i <= j]

\* line 89, 144: channel values of mode 'L'
Background == 255
Ink == 0
\* line 151
MaxChannel == 255

\* line 89: Image.new('L', size, color); PIL sizes are (width, height).
ImageNew(w, h, color) ==
    [size |-> <<w, h>>, data |-> [p \in (1 .. w) \X (1 .. h) |-> color]]

\* line 93: int(min(height, width) * font_size_ratio), font_size_ratio = 0.9;
\* int() truncates toward zero
Min(a, b) == IF a <= b THEN a ELSE b
FontSize(h, w) ==
    LET n == Min(h, w) * 9
    IN  IF n >= 0 THEN n \div 10 ELSE -((-n) \div 10)

\* len(letter)
LetterLen(l) == CASE l = "" -> 0 [] l = "S" -> 1 [] l = "SS" -> 2

\* lines 129-131, 134-136: the estimate, in tenths of a pixel
Estimate(size, l) ==
    [by |-> "estimate",
     text_width |-> size * LetterLen(l) * 6, text_height |-> size * 10,
     bbox_y_offset |-> 0]

\* lines 119-126: what the library measures; the values are the library's,
\* taken here from a small range (an empty string measures 0 by 0)
Measured(f, l, api) ==
    {[by |-> api,
      text_width |-> f.size * LetterLen(l) * 10,
      text_height |-> (IF l = "" THEN 0 ELSE f.size * 10),
      bbox_y_offset |-> t] : t \in (IF api = "textbbox" THEN {0, 1} ELSE {0})}

\* lines 139-140, in twentieths of a pixel
Center(m) ==
    [by |-> m.by, text_width |-> m.text_width, text_height |-> m.text_height,
     bbox_y_offset |-> m.bbox_y_offset,
     x |-> width * 10 - m.text_width,
     y |-> height * 10 - m.text_height - 20 * m.bbox_y_offset]

\* lines 144, 146: the pixels draw.text may cover with the fill value:
\* none for an empty string or a glyph that falls off the canvas, else
\* some of the canvas
Covered(im, l) ==
    IF l = "" \/ DOMAIN im.data = {}
      THEN {{}}
      ELSE {{}, {<<1, 1>>}, DOMAIN im.data}
DrawText(im, cover, fill) ==
    [im EXCEPT !.data = [p \in DOMAIN im.data |->
                            IF p \in cover THEN fill ELSE im.data[p]]]

\* line 151: np.array(img, dtype=float32) / 255.0; the array of an image of
\* size (w, h) has shape (h, w); a sample is data[p] / divisor.
\* (faulty variant: the division left out)
NotNormalized(im) ==
    [shape |-> <<im.size[2], im.size[1]>>,
     data |-> [p \in (1 .. im.size[2]) \X (1 .. im.size[1]) |->
                 im.data[<<p[2], p[1]>>]],
     divisor |-> 1]
Normalized(im) ==
    [shape |-> <<im.size[2], im.size[1]>>,
     data |-> [p \in (1 .. im.size[2]) \X (1 .. im.size[1]) |->
                 im.data[<<p[2], p[1]>>]],
     divisor |-> MaxChannel]

NoImage == [size |-> <<0, 0>>, data |-> <<>>]
NoFont == [kind |-> NULL, path |-> NULL, size |-> 0]
NoLayout == [by |-> NULL, text_width |-> 0, text_height |-> 0, bbox_y_offset |-> 0,
             x |-> 0, y |-> 0]
NoArray == [shape |-> <<>>, data |-> <<>>, divisor |-> 1]
NoLetterError == [type |-> NULL, line |-> 0]

Letters == {NULL, "", "S", "SS"}
Dims == -1 .. MaxDim

LetterIdle ==
    /\ system = NULL
    /\ exists = {}
    /\ loadable = {}
    /\ height = 0
    /\ width = 0
    /\ letter = NULL
    /\ img = NoImage
    /\ font_size = 0
    /\ font_path = NULL
    /\ font = NoFont
    /\ layout = NoLayout
    /\ letter_array = NoArray
    /\ l_pc = "idle"
    /\ l_err = NoLetterError

LetterInit ==
    /\ system \in Systems
    /\ exists \in {e \in SUBSET Range(FontPaths(system)) : Cardinality(e) <= MaxExisting}
    /\ loadable \in SUBSET exists
    /\ height \in Dims
    /\ width \in Dims
    /\ letter \in Letters
    /\ img = NoImage
    /\ font_size = 0
    /\ font_path = NULL
    /\ font = NoFont
    /\ layout = NoLayout
    /\ letter_array = NoArray
    /\ l_pc = "new"
    /\ l_err = NoLetterError

LetterRaise(type, line) ==
    /\ l_err' = [type |-> type, line |-> line]
    /\ l_pc' = "raised"

\* lines 89-93.  Pillow's Image.new rejects a negative width or height with
\* a ValueError and accepts zero.
LetterNew ==
    /\ l_pc = "new"
    /\ IF width < 0 \/ height < 0
         THEN /\ LetterRaise("ValueError", 89)
              /\ UNCHANGED <<img, font_size>>
         ELSE /\ img' = ImageNew(width, height, Background)
              /\ font_size' = FontSize(height, width)
              /\ l_pc' = "find"
              /\ UNCHANGED l_err
    /\ UNCHANGED <<system, exists, loadable, height, width, letter,
                   font_path, font, layout, letter_array>>
    /\ UNCHANGED <<m_vars, g_vars>>

\* line 97
LetterFindFont ==
    /\ l_pc = "find"
    /\ font_path' = FindFontPath(system, exists)
    /\ l_pc' = "load"
    /\ UNCHANGED <<system, exists, loadable, height, width, letter, img,
                   font_size, font, layout, letter_array, l_err>>
    /\ UNCHANGED <<m_vars, g_vars>>

\* lines 98-102.  ImageFont.truetype raises OSError for a file it cannot
\* read, which line 101 catches.  For a size that is not greater than zero
\* current Pillow raises ValueError, which line 101 does not catch; older
\* Pillow hands the size to FreeType.  Both outcomes are kept.
LetterLoadFont ==
    /\ l_pc = "load"
    /\ \/ /\ font_path = NULL
          /\ font' = NoFont
          /\ l_pc' = "default"
          /\ UNCHANGED l_err
       \/ /\ font_path # NULL
          /\ font_path \in loadable
          /\ font' = [kind |-> "truetype", path |-> font_path, size |-> font_size]
          /\ l_pc' = "default"
          /\ UNCHANGED l_err
       \/ /\ font_path # NULL
          /\ font_path \notin loadable
          /\ font' = NoFont
          /\ l_pc' = "default"
          /\ UNCHANGED l_err
       \/ /\ font_path # NULL
          /\ font_size <= 0
          /\ LetterRaise("ValueError", 100)
          /\ UNCHANGED font
    /\ UNCHANGED <<system, exists, loadable, height, width, letter, img,
                   font_size, font_path, layout, letter_array>>
    /\ UNCHANGED <<m_vars, g_vars>>

\* lines 105-110: the bare except absorbs any failure of load_default; the
\* built-in font has one fixed size, taken as 1
LetterDefaultFont ==
    /\ l_pc = "default"
    /\ \/ /\ font # NoFont
          /\ UNCHANGED font
       \/ /\ font = NoFont
          /\ font' = [kind |-> "default", path |-> NULL, size |-> 1]
       \/ /\ font = NoFont
          /\ font' = NoFont
    /\ l_pc' = "measure"
    /\ UNCHANGED <<system, exists, loadable, height, width, letter, img,
                   font_size, font_path, layout, letter_array, l_err>>
    /\ UNCHANGED <<m_vars, g_vars>>

\* lines 114-140.  The disjuncts, in order:
\*   letter None: the measurement raises TypeError, line 127 catches it and
\*     len(letter) at line 129 raises TypeError again; with no font,
\*     len(letter) at line 134 raises it;
\*   lines 118-122: draw.textbbox measures the text;
\*   line 119: textbbox of Pillow 8.0-10.0 raises ValueError for the built-in
\*     bitmap font ("Only supported for TrueType fonts"), which line 127 does
\*     not catch;
\*   lines 123-126: no textbbox attribute, draw.textsize measures the text;
\*   lines 127-136: no font, or neither measurement API (AttributeError):
\*     the estimate.
LetterMeasure ==
    /\ l_pc = "measure"
    /\ \/ /\ letter = NULL
          /\ LetterRaise("TypeError", IF font # NoFont THEN 129 ELSE 134)
          /\ UNCHANGED layout
       \/ /\ letter # NULL
          /\ font # NoFont
          /\ \E m \in Measured(font, letter, "textbbox") : layout' = Center(m)
          /\ l_pc' = "draw"
          /\ UNCHANGED l_err
       \/ /\ letter # NULL
          /\ font # NoFont
          /\ font.kind = "default"
          /\ LetterRaise("ValueError", 119)
          /\ UNCHANGED layout
       \/ /\ letter # NULL
          /\ font # NoFont
          /\ \E m \in Measured(font, letter, "textsize") : layout' = Center(m)
          /\ l_pc' = "draw"
          /\ UNCHANGED l_err
       \/ /\ letter # NULL
          /\ layout' = Center(Estimate(font_size, letter))
          /\ l_pc' = "draw"
          /\ UNCHANGED l_err
    /\ UNCHANGED <<system, exists, loadable, height, width, letter, img,
                   font_size, font_path, font, letter_array>>
    /\ UNCHANGED <<m_vars, g_vars>>

\* lines 143-146.  Without a font argument draw.text loads Pillow's default
\* font itself (ImageDraw.getfont calls ImageFont.load_default), so in the
\* branch of line 146, reached only when load_default failed at line 108, the
\* draw may fail the same way.
LetterDraw ==
    /\ l_pc = "draw"
    /\ \/ /\ \E cover \in Covered(img, letter) : img' = DrawText(img, cover, Ink)
          /\ l_pc' = "normalize"
          /\ UNCHANGED l_err
       \/ /\ font = NoFont
          /\ LetterRaise("OSError", 146)
          /\ UNCHANGED img
    /\ UNCHANGED <<system, exists, loadable, height, width, letter,
                   font_size, font_path, font, layout, letter_array>>
    /\ UNCHANGED <<m_vars, g_vars>>

\* lines 151-153
LetterNormalize ==
    /\ l_pc = "normalize"
    /\ letter_array' = Normalized(img)
    /\ l_pc' = "returned"
    /\ UNCHANGED <<system, exists, loadable, height, width, letter, img,
                   font_size, font_path, font, layout, l_err>>
    /\ UNCHANGED <<m_vars, g_vars>>

LetterNext ==
    \/ LetterNew
    \/ LetterFindFont
    \/ LetterLoadFont
    \/ LetterDefaultFont
    \/ LetterMeasure
    \/ LetterDraw
    \/ LetterNormalize

vars == <<m_vars, g_vars, l_vars>>

InitLetter == LetterInit /\ MaskIdle /\ MemeIdle
SpecLetter == InitLetter /\ [][LetterNext]_vars

InitMask == MaskInit /\ MemeIdle /\ LetterIdle
SpecMask == InitMask /\ [][MaskNext]_vars

InitMeme == MemeInit /\ MaskIdle /\ LetterIdle
SpecMeme == InitMeme /\ [][MemeNext]_vars

(***************************************************************************)
(* Properties of create_masked_stipple (checked under SpecMask).           *)
(***************************************************************************)
Source0 == heap0[stipple_img]
Mask0 == heap0[mask_img]
Result == heap[masked_stipple]
MaskDone == m_pc \in {"returned"}

\* C1: once the call has returned, with a threshold in [0,1], every pixel
\* whose mask sample is below the threshold is 1.0 (white) in the result,
\* whatever the source sample there was.
C1_ErasedBelowThreshold ==
    (MaskDone /\ threshold \in 0 .. Scale) =>
        \A p \in Pixels(Mask0.shape) :
            Mask0.data[p] < threshold => Result.data[p] = White

C1_Witness ==
    /\ MaskDone
    /\ threshold \in 0 .. Scale
    /\ \E p \in Pixels(Mask0.shape) :
          /\ Mask0.data[p] < threshold
          /\ Source0.data[p] # White
          /\ Result.data[p] = White

\* C2: once the call has returned, every pixel whose mask sample is at or
\* above the threshold (equality included) has the source's sample in the
\* result; so with threshold 0.0 the result equals the source everywhere.
C2_KeptAtOrAboveThreshold ==
    MaskDone =>
        /\ \A p \in Pixels(Mask0.shape) :
              Mask0.data[p] >= threshold => Result.data[p] = Source0.data[p]
        /\ threshold = 0 => Result.data = Source0.data

C2_Witness ==
    /\ MaskDone
    /\ \E p \in Pixels(Mask0.shape) :
          /\ Mask0.data[p] = threshold
          /\ Source0.data[p] # White
          /\ Result.data[p] = Source0.data[p]

\* C3: when the two shapes differ the call ends, at its first step, in a
\* ValueError whose message carries both shapes, with no result array
\* allocated and the heap untouched; when they are equal no error is raised.
C3_ShapeMismatchRaised ==
    /\ (Source0.shape # Mask0.shape /\ m_pc # "validate") =>
          /\ m_pc = "raised"
          /\ m_err.type = "ValueError"
          /\ {Source0.shape, Mask0.shape} \subseteq Range(m_err.args)
          /\ masked_stipple = 0
          /\ DOMAIN heap = DOMAIN heap0
    /\ Source0.shape = Mask0.shape =>
          /\ m_err = NoError
          /\ m_pc # "raised"

C3_Witness ==
    /\ m_pc = "raised"
    /\ Source0.shape = <<1, 2>>
    /\ Mask0.shape = <<2, 1>>

\* C4: at every point of the call and after it (error or success, and after
\* the caller has written into the result) the argument arrays hold the
\* samples they held before the call, and the result is an object that did
\* not exist before the call.
C4_ArgumentsUnchanged ==
    /\ \A id \in DOMAIN heap0 : heap[id] = heap0[id]
    /\ masked_stipple # 0 => masked_stipple \notin DOMAIN heap0

C4_Witness ==
    /\ m_pc = "written"
    /\ Mask0.data # Source0.data
    /\ \E p \in Pixels(Mask0.shape) : Mask0.data[p] < threshold
    /\ Result.data # Source0.data
    /\ heap[stipple_img] = Source0

(***************************************************************************)
(* Properties of create_statistics_meme (checked under SpecMeme).          *)
(***************************************************************************)
PanelNames == <<"original", "stipple", "block_letter", "masked_stipple">>
Offenders == {i \in 1 .. 4 : panel_shape[PanelNames[i]] # panel_shape["original"]}
FirstOffender == CHOOSE i \in Offenders : \A j \in Offenders : i <= j

\* C9: if a panel's shape differs from the original's, the call ends during
\* validation in a ValueError naming the first such panel (in the order
\* original, stipple, block_letter, masked_stipple), its shape and the
\* expected shape, and never opens a figure or writes a file; if the four
\* shapes are equal the error is never raised.
C9_PanelShapesValidated ==
    /\ Offenders # {} =>
          /\ ~fig_open /\ axes = <<>> /\ files = {}
          /\ g_pc \in {"validate", "raised"}
          /\ g_pc = "validate" => g_i <= FirstOffender
          /\ g_pc = "raised" =>
                /\ g_err.type = "ValueError"
                /\ g_err.name = PanelNames[FirstOffender]
                /\ g_err.shape = panel_shape[PanelNames[FirstOffender]]
                /\ g_err.expected = panel_shape["original"]
    /\ Offenders = {} => g_err = NoPanelError /\ g_pc # "raised"
    /\ (fig_open \/ files # {}) => Offenders = {}

C9_Witness ==
    /\ g_pc = "raised"
    /\ Cardinality(Offenders) >= 2
    /\ g_err.name = "block_letter"
    /\ g_err.shape # g_err.expected

(***************************************************************************)
(* Properties of create_block_letter_s (checked under SpecLetter).         *)
(***************************************************************************)
ValidDimensions == height > 0 /\ width > 0
ValidLetter == letter \notin {NULL, ""}

C5_ReturnsWithDefaultFont ==
    /\ l_pc = "returned" /\ ValidLetter /\ ValidDimensions
    /\ font.kind = "default"
C5_ReturnsWithNoFont ==
    /\ l_pc = "returned" /\ ValidLetter /\ ValidDimensions
    /\ font = NoFont

\* C6: for valid inputs the call never ends in an error: whatever the font
\* files, the default font and the measurement API do, it reaches the draw
\* step and returns.
C6_NeverFailsOnFonts ==
    (ValidDimensions /\ ValidLetter) => l_pc # "raised"

\* C7: with height <= 0 or width <= 0 (and a character string that is
\* valid) the call never returns a raster.
C7_InvalidDimensionReported ==
    ((height <= 0 \/ width <= 0) /\ ValidLetter) => l_pc # "returned"

\* C8: with an empty or None character string (and dimensions that are
\* valid) the call never returns a raster.
C8_EmptyCharacterReported ==
    (letter \in {NULL, ""} /\ ValidDimensions) => l_pc # "returned"

\* C10: once font resolution is over (in a call with valid arguments and a
\* pixel size above zero), the active font is the first candidate of the
\* platform's list that exists and loads, and it is the default (or no)
\* font only when no candidate exists and loads.
Usable == {i \in DOMAIN FontPaths(system) :
             FontPaths(system)[i] \in exists \cap loadable}
C10_FirstUsableCandidate ==
    (l_pc = "measure" /\ ValidDimensions /\ ValidLetter /\ font_size > 0) =>
        IF Usable = {}
          THEN font.kind # "truetype"
          ELSE /\ font.kind = "truetype"
               /\ font.path = FontPaths(system)[CHOOSE i \in Usable :
                                                   \A j \in Usable : i <= j]

=============================================================================
